---------------------------- MODULE Spec2Model ----------------------------
(***************************************************************************)
(* Model of the Bascanka Explorer context-menu COM component               *)
(* (src/Bascanka.Explorer.ContextMenu): the load-time initializer and the  *)
(* exported functions of dllmain.cpp, the ClassFactory object and the      *)
(* BascankaCommand object, together with the per-user registry key they    *)
(* read and the host (Explorer) that drives them.                          *)
(*                                                                         *)
(* Strings are sequences of one-character strings.  An output pointer is   *)
(* a sequence of length 0 (nullptr) or 1 (the value it points to).         *)
(* HRESULTs keep their 32-bit signed values, so that FAILED/SUCCEEDED are  *)
(* the sign tests of the Windows headers.                                  *)
(***************************************************************************)
EXTENDS Integers, Sequences, FiniteSets, TLC

(***************************************************************************)
(* Bounds of the model.                                                    *)
(***************************************************************************)
MaxSel == 2
MaxFactories == 1
MaxCommands == 1
MaxAcquires == 3
MaxLocks == 1

(***************************************************************************)
(* Status codes (winerror.h values, as signed 32-bit integers).            *)
(***************************************************************************)
S_OK == 0
S_FALSE == 1
E_NOTIMPL == -2147467263
E_NOINTERFACE == -2147467262
E_POINTER == -2147467261
E_FAIL == -2147467259
E_OUTOFMEMORY == -2147024882
E_INVALIDARG == -2147024809
CLASS_E_NOAGGREGATION == -2147221232
CLASS_E_CLASSNOTAVAILABLE == -2147221231
CO_E_CLASSSTRING == -2147221005
ERROR_SUCCESS == 0
ERROR_FILE_NOT_FOUND == 2
ERROR_MORE_DATA == 234

FAILED(hr) == hr < 0
SUCCEEDED(hr) == hr >= 0

\* HRESULT_FROM_WIN32: x <= 0 ? x : ((x & 0xFFFF) | 0x80070000), as a signed value.
HRESULT_FROM_WIN32(x) == IF x <= 0 THEN x ELSE (x % 65536) - 2147024896

(***************************************************************************)
(* Strings.                                                                *)
(***************************************************************************)
NUL == "NUL"
Repeat(c, n) == [i \in 1..n |-> c]

\* std::wstring(const wchar_t*): the characters before the first NUL.
WStringFrom(buf) ==
    LET nuls == {i \in 1..Len(buf) : buf[i] = NUL}
    IN IF nuls = {} THEN buf
       ELSE SubSeq(buf, 1, (CHOOSE i \in nuls : \A j \in nuls : i <= j) - 1)

NULLPTR == <<>>
PtrTo(x) == <<x>>

\* SHStrDupW(psz, ppwsz): *ppwsz receives a copy of psz.
SHStrDupW(s) == [hr |-> S_OK, out |-> PtrTo(s)]

(***************************************************************************)
(* The registry key HKCU\Software\Bascanka\ContextMenu.                    *)
(***************************************************************************)
ValueNames == {"DisplayName", "ExePath", "IconPath", "CLSID"}
REG_SZ == "REG_SZ"
REG_EXPAND_SZ == "REG_EXPAND_SZ"
REG_DWORD == "REG_DWORD"
\* the key: either missing (RegOpenKeyExW fails) or a set of named values
NoKey == [key |-> FALSE, val |-> [n \in {"DisplayName", "ExePath", "IconPath", "CLSID"} |-> [type |-> "none", data |-> <<>>]]]
Absent == [type |-> "none", data |-> <<>>]
Sz(s) == [type |-> REG_SZ, data |-> s]
ExpandSz(s) == [type |-> REG_EXPAND_SZ, data |-> s]
Dword == [type |-> REG_DWORD, data |-> <<>>]

\* wchar_t buffer[1024] of ReadRegString, wchar_t buffer[128] of ReadCLSIDFromRegistry
BufferChars == 1024
ClsidBufferChars == 128

FallbackTitle ==
    <<"E","d","i","t"," ","w","i","t","h"," ","B","a","s","c","a","n","k","a">>
IconIndexSuffix == <<",", "0">>

NameA == <<"O", "p", "e", "n">>
ExeA == <<"b", ".", "e", "x", "e">>
ExeB == <<"c", ".", "e", "x", "e">>
IconA == <<"i", ".", "i", "c", "o">>
\* the longest string that fits the buffer with its terminator, and the first
\* that does not
FitString == Repeat("w", BufferChars - 1)
LongString == Repeat("w", BufferChars)

\* values the registrar (or anyone else writing HKCU) may leave under each name
DisplayNameValues ==
    {Absent, Dword, ExpandSz(NameA), Sz(<<>>), Sz(NameA), Sz(FitString), Sz(LongString)}
ExePathValues == {Absent, Sz(ExeA), Sz(LongString)}
IconPathValues == {Absent, Sz(IconA), Sz(LongString)}
CLSID_NULL == 0
Guids == {0, 1, 2}
GuidString(g) == <<"{", ToString(g), "}">>
ClsidValues == {Absent, Sz(GuidString(1)), Sz(GuidString(2)), Sz(NameA)}
ValuesOf(name) ==
    CASE name = "DisplayName" -> DisplayNameValues
      [] name = "ExePath" -> ExePathValues
      [] name = "IconPath" -> IconPathValues
      [] name = "CLSID" -> ClsidValues
EmptyKey == [key |-> TRUE, val |-> [n \in ValueNames |-> Absent]]

\* size in bytes of a stored value: REG_SZ data with its terminating NUL
ByteSize(v) == IF v.type = REG_DWORD THEN 4 ELSE (Len(v.data) + 1) * 2

\* RegQueryValueExW(hKey, name, nullptr, &type, buffer, &bufferSize)
RegQueryValueExW(v, bufferSize) ==
    IF v.type = "none" THEN ERROR_FILE_NOT_FOUND
    ELSE IF ByteSize(v) > bufferSize THEN ERROR_MORE_DATA
    ELSE ERROR_SUCCESS

\* a ReadRegString that keeps answering what the registrar first wrote
ReadRegString_Cached(r, valueName) ==
    CASE valueName = "DisplayName" -> NameA
      [] valueName = "ExePath" -> ExeA
      [] valueName = "IconPath" -> IconA
      [] OTHER -> <<>>

\* BascankaCommand::ReadRegString
ReadRegString(r, valueName) ==
    IF ~r.key THEN <<>>
    ELSE LET status == RegQueryValueExW(r.val[valueName], BufferChars * 2)
         IN IF status # ERROR_SUCCESS \/ r.val[valueName].type # REG_SZ THEN <<>>
            ELSE WStringFrom(r.val[valueName].data)

\* CLSIDFromString on the "{x}" form (one digit stands for the 32 hex digits)
CLSIDFromString(s) ==
    IF Len(s) = 3 /\ s[1] = "{" /\ s[3] = "}" /\ \E g \in Guids : s[2] = ToString(g)
    THEN [hr |-> S_OK, clsid |-> CHOOSE g \in Guids : s[2] = ToString(g)]
    ELSE [hr |-> CO_E_CLASSSTRING, clsid |-> CLSID_NULL]

\* ReadCLSIDFromRegistry: the value of g_CLSID_BascankaCommand after the call.
\* Every call site runs it with g = CLSID{}, so a failed parse leaves CLSID{}.
ReadCLSIDFromRegistry(r, g) ==
    IF ~r.key THEN g
    ELSE LET status == RegQueryValueExW(r.val["CLSID"], ClsidBufferChars * 2)
         IN IF status # ERROR_SUCCESS \/ r.val["CLSID"].type # REG_SZ THEN g
            ELSE LET p == CLSIDFromString(WStringFrom(r.val["CLSID"].data))
                 IN IF SUCCEEDED(p.hr) THEN p.clsid ELSE g

(***************************************************************************)
(* BascankaCommand: the host-facing queries and the launch.                *)
(***************************************************************************)
GetTitle_NoFallback(r) == SHStrDupW(ReadRegString(r, "DisplayName"))

\* BascankaCommand::GetTitle
GetTitle(r) ==
    LET displayName == ReadRegString(r, "DisplayName")
    IN SHStrDupW(IF displayName = <<>> THEN FallbackTitle ELSE displayName)

GetIcon_NoIndex(r) ==
    LET iconPath == ReadRegString(r, "IconPath")
        icon == IF iconPath = <<>> THEN ReadRegString(r, "ExePath") ELSE iconPath
    IN IF icon = <<>> THEN [hr |-> E_NOTIMPL, out |-> NULLPTR] ELSE SHStrDupW(icon)

\* BascankaCommand::GetIcon
GetIcon(r) ==
    LET iconPath == ReadRegString(r, "IconPath")
        exePath == ReadRegString(r, "ExePath")
        icon == IF iconPath = <<>>
                THEN (IF exePath # <<>> THEN exePath \o IconIndexSuffix ELSE exePath)
                ELSE iconPath
    IN IF icon = <<>> THEN [hr |-> E_NOTIMPL, out |-> NULLPTR] ELSE SHStrDupW(icon)

\* the settings GetIcon reads: ExePath only when IconPath came back empty
GetIconReads(r) ==
    IF ReadRegString(r, "IconPath") = <<>> THEN {"IconPath", "ExePath"} ELSE {"IconPath"}

\* A selected shell item: what GetItemAt and GetDisplayName(SIGDN_FILESYSPATH)
\* answer for it, and the file-system path it stands for.
PathA == <<"a">>
PathB == <<"b", " ", "c">>
Item(p, itemHr, nameHr) == [path |-> p, itemHr |-> itemHr, nameHr |-> nameHr]
Items ==
    {Item(PathA, S_OK, S_OK), Item(PathB, S_OK, S_OK),
     Item(PathB, S_OK, E_INVALIDARG), Item(PathA, E_FAIL, S_OK)}
RECURSIVE SeqsUpTo(_, _)
SeqsUpTo(S, n) ==
    IF n = 0 THEN {<<>>}
    ELSE LET shorter == SeqsUpTo(S, n - 1)
         IN shorter \cup {Append(q, x) : q \in shorter, x \in S}
\* psiItemArray: a null pointer, or an array whose GetCount answers countHr
NullArray == [null |-> TRUE, countHr |-> S_OK, items |-> <<>>]
ItemArray(countHr, items) == [null |-> FALSE, countHr |-> countHr, items |-> items]
ItemArrays ==
    {NullArray, ItemArray(E_FAIL, <<>>)}
        \cup {ItemArray(S_OK, q) : q \in SeqsUpTo(Items, MaxSel)}

QUOTE == "\""
Quoted(path) == <<QUOTE>> \o path \o <<QUOTE>>

\* the loop of Invoke over i = 0 .. count-1 (here 1 .. count), from args so far
RECURSIVE BuildArgs(_, _, _)
BuildArgs(items, i, args) ==
    IF i > Len(items) THEN args
    ELSE IF SUCCEEDED(items[i].itemHr) /\ SUCCEEDED(items[i].nameHr)
         THEN BuildArgs(items, i + 1,
                  (IF args # <<>> THEN args \o <<" ">> ELSE args) \o Quoted(items[i].path))
         ELSE BuildArgs(items, i + 1, args)

\* ShellExecuteExW as the host's system answers it: success, or failure with
\* the error GetLastError then reports
ShellAnswers ==
    {[ok |-> TRUE, lastError |-> ERROR_SUCCESS],
     [ok |-> FALSE, lastError |-> ERROR_FILE_NOT_FOUND]}
Launch(file, params) == [verb |-> <<"o","p","e","n">>, file |-> file, params |-> params]

\* BascankaCommand::Invoke: the status returned and the launches requested
Invoke(r, psiItemArray, shell) ==
    IF psiItemArray.null THEN [hr |-> E_INVALIDARG, launches |-> <<>>]
    ELSE LET exePath == ReadRegString(r, "ExePath")
             hr == psiItemArray.countHr
             count == IF FAILED(hr) THEN 0 ELSE Len(psiItemArray.items)
             args == BuildArgs(psiItemArray.items, 1, <<>>)
         IN IF exePath = <<>> THEN [hr |-> E_FAIL, launches |-> <<>>]
            ELSE IF FAILED(hr) \/ count = 0 THEN [hr |-> hr, launches |-> <<>>]
            ELSE IF args = <<>> THEN [hr |-> E_FAIL, launches |-> <<>>]
            ELSE [hr |-> IF shell.ok THEN S_OK ELSE HRESULT_FROM_WIN32(shell.lastError),
                  launches |-> <<Launch(exePath, args)>>]

(***************************************************************************)
(* COM objects.  An object slot is free (never constructed, or its memory  *)
(* given back), alive, or deleted.  acquires and releases count the        *)
(* AddRef-like and Release calls made on the object since construction;    *)
(* deletes counts the executions of "delete this".                         *)
(***************************************************************************)
FreeSlot == [st |-> "free", m_refCount |-> 0, acquires |-> 0, releases |-> 0, deletes |-> 0]
IIDs == {"IID_IUnknown", "IID_IClassFactory", "IID_IExplorerCommand", "IID_IDispatch"}

InterlockedIncrement(x) == x + 1
InterlockedDecrement(x) == x - 1

\* BascankaCommand::BascankaCommand : m_refCount(1)
BascankaCommand_New == [FreeSlot EXCEPT !.st = "alive", !.m_refCount = 1]

BascankaCommand_AddRef_Lost(o) == [o EXCEPT !.acquires = @ + 1]

\* BascankaCommand::AddRef
BascankaCommand_AddRef(o) ==
    [o EXCEPT !.m_refCount = InterlockedIncrement(@), !.acquires = @ + 1]

\* BascankaCommand::Release
BascankaCommand_Release(o) ==
    LET ref == InterlockedDecrement(o.m_refCount)
    IN [o EXCEPT !.m_refCount = ref, !.releases = @ + 1,
                 !.st = IF ref = 0 THEN "deleted" ELSE @,
                 !.deletes = IF ref = 0 THEN @ + 1 ELSE @]

\* BascankaCommand::QueryInterface; ppv is TRUE for a non-null output pointer
BascankaCommand_QueryInterface(o, riid, ppv) ==
    IF ~ppv THEN [hr |-> E_POINTER, obj |-> o]
    ELSE IF riid \in {"IID_IUnknown", "IID_IExplorerCommand"}
         THEN [hr |-> S_OK, obj |-> BascankaCommand_AddRef(o)]
         ELSE [hr |-> E_NOINTERFACE, obj |-> o]

\* ClassFactory::ClassFactory : m_refCount(1), InterlockedIncrement(&g_dllRefCount)
ClassFactory_New(dll) ==
    [obj |-> [FreeSlot EXCEPT !.st = "alive", !.m_refCount = 1],
     dll |-> InterlockedIncrement(dll)]

\* ClassFactory::AddRef
ClassFactory_AddRef(o) ==
    [o EXCEPT !.m_refCount = InterlockedIncrement(@), !.acquires = @ + 1]

\* ClassFactory::Release
ClassFactory_Release(o, dll) ==
    LET ref == InterlockedDecrement(o.m_refCount)
    IN [obj |-> [o EXCEPT !.m_refCount = ref, !.releases = @ + 1,
                          !.st = IF ref = 0 THEN "deleted" ELSE @,
                          !.deletes = IF ref = 0 THEN @ + 1 ELSE @],
        dll |-> IF ref = 0 THEN InterlockedDecrement(dll) ELSE dll]

\* ClassFactory::QueryInterface
ClassFactory_QueryInterface(o, riid, ppv) ==
    IF ~ppv THEN [hr |-> E_POINTER, obj |-> o]
    ELSE IF riid \in {"IID_IUnknown", "IID_IClassFactory"}
         THEN [hr |-> S_OK, obj |-> ClassFactory_AddRef(o)]
         ELSE [hr |-> E_NOINTERFACE, obj |-> o]

ClassFactory_CreateInstance_NoRelease(pUnkOuter, riid, ppv, alloc) ==
    IF pUnkOuter THEN [hr |-> CLASS_E_NOAGGREGATION, made |-> FALSE, obj |-> FreeSlot]
    ELSE IF ~alloc THEN [hr |-> E_OUTOFMEMORY, made |-> FALSE, obj |-> FreeSlot]
    ELSE LET q == BascankaCommand_QueryInterface(BascankaCommand_New, riid, ppv)
         IN [hr |-> q.hr, made |-> TRUE, obj |-> q.obj]

\* ClassFactory::CreateInstance; pUnkOuter is TRUE for a non-null outer unknown,
\* alloc is FALSE when new (std::nothrow) answers nullptr
ClassFactory_CreateInstance(pUnkOuter, riid, ppv, alloc) ==
    IF pUnkOuter THEN [hr |-> CLASS_E_NOAGGREGATION, made |-> FALSE, obj |-> FreeSlot]
    ELSE IF ~alloc THEN [hr |-> E_OUTOFMEMORY, made |-> FALSE, obj |-> FreeSlot]
    ELSE LET q == BascankaCommand_QueryInterface(BascankaCommand_New, riid, ppv)
         IN [hr |-> q.hr, made |-> TRUE, obj |-> BascankaCommand_Release(q.obj)]

\* DllGetClassObject: g is g_CLSID_BascankaCommand and dll is g_dllRefCount at
\* the call; the result carries their values at the return.
GetClassObject(r, g, dll, rclsid, riid, ppv, alloc) ==
    IF ~ppv THEN [hr |-> E_POINTER, made |-> FALSE, obj |-> FreeSlot, g |-> g, dll |-> dll]
    ELSE LET g2 == IF g = CLSID_NULL THEN ReadCLSIDFromRegistry(r, g) ELSE g
         IN IF rclsid # g2
            THEN [hr |-> CLASS_E_CLASSNOTAVAILABLE, made |-> FALSE, obj |-> FreeSlot,
                  g |-> g2, dll |-> dll]
            ELSE IF ~alloc
            THEN [hr |-> E_OUTOFMEMORY, made |-> FALSE, obj |-> FreeSlot,
                  g |-> g2, dll |-> dll]
            ELSE LET n == ClassFactory_New(dll)
                     q == ClassFactory_QueryInterface(n.obj, riid, ppv)
                     d == ClassFactory_Release(q.obj, n.dll)
                 IN [hr |-> q.hr, made |-> TRUE, obj |-> d.obj, g |-> g2, dll |-> d.dll]

\* ClassFactory::LockServer
ClassFactory_LockServer(dll, fLock) ==
    IF fLock THEN InterlockedIncrement(dll) ELSE InterlockedDecrement(dll)

\* DllCanUnloadNow
CanUnloadNow(dll) == IF dll > 0 THEN S_FALSE ELSE S_OK

(***************************************************************************)
(* State.                                                                  *)
(*   reg            the configuration key                                  *)
(*   loaded         DLL_PROCESS_ATTACH has run                             *)
(*   g_CLSID        g_CLSID_BascankaCommand                                *)
(*   g_dllRefCount  the global count DllCanUnloadNow tests                 *)
(*   factory, command   the ClassFactory and BascankaCommand objects       *)
(*   locks          LockServer(TRUE) calls not yet undone                  *)
(*   last           the component's most recent operation: its inputs, its *)
(*                  status and output, what it saw in the key (saw), the   *)
(*                  setting values it went on to use (got), its effects    *)
(***************************************************************************)
VARIABLES reg, loaded, g_CLSID, g_dllRefCount, factory, command, locks, last

vars == <<reg, loaded, g_CLSID, g_dllRefCount, factory, command, locks, last>>

FactoryIds == 1..MaxFactories
CommandIds == 1..MaxCommands
CommandNames == {"DisplayName", "ExePath", "IconPath"}

Key(d, e, i, c) ==
    [key |-> TRUE,
     val |-> [n \in ValueNames |->
                CASE n = "DisplayName" -> d [] n = "ExePath" -> e
                  [] n = "IconPath" -> i [] n = "CLSID" -> c]]
AllRegistries ==
    {NoKey} \cup {Key(d, e, i, c) : d \in DisplayNameValues, e \in ExePathValues,
                                    i \in IconPathValues, c \in ClsidValues}
\* what the registrar leaves after a complete registration
Registered == Key(Sz(NameA), Sz(ExeA), Sz(IconA), Sz(GuidString(1)))
\* the same, with one setting changed to another well-formed string
RewriteValues(n) ==
    CASE n = "DisplayName" -> {Sz(NameA), Sz(IconA)}
      [] n = "ExePath" -> {Sz(ExeA), Sz(ExeB)}
      [] n = "IconPath" -> {Sz(IconA), Sz(ExeB)}
      [] n = "CLSID" -> {Absent, Sz(GuidString(1)), Sz(GuidString(2))}
\* registries that differ from it in the settings BascankaCommand reads
CommandRegistries == {r \in AllRegistries : r.key /\ r.val["CLSID"] = Sz(GuidString(1))}
\* registries that differ from it in the component identifier
ClsidRegistries ==
    {r \in AllRegistries : ~r.key \/ \A n \in CommandNames : r.val[n] = Registered.val[n]}

None == [none |-> TRUE]
\* the part of the key an operation that reads the settings in names sees
Saw(names) == [key |-> reg.key, val |-> [n \in names |-> reg.val[n]]]
Op(op, arg, hr, out, saw, got, fx) ==
    [op |-> op, arg |-> arg, hr |-> hr, out |-> out, saw |-> saw, got |-> got, fx |-> fx]
NoRead == [key |-> FALSE, val |-> <<>>]

InitFrom(registries) ==
    /\ reg \in registries
    /\ loaded = FALSE
    /\ g_CLSID = CLSID_NULL
    /\ g_dllRefCount = 0
    /\ factory = [f \in FactoryIds |-> FreeSlot]
    /\ command = [c \in CommandIds |-> FreeSlot]
    /\ locks = 0
    /\ last = Op("none", None, S_OK, NULLPTR, NoRead, <<>>, None)

Init == InitFrom(AllRegistries)

\* The component as the host holds it once it has a command to show: loaded
\* with the key r, after DllGetClassObject for the registered identifier and
\* CreateInstance on the factory it handed out, both into slot 1.
HandedOut(r) ==
    LET g == ReadCLSIDFromRegistry(r, CLSID_NULL)
        gco == GetClassObject(r, g, 0, g, "IID_IClassFactory", TRUE, TRUE)
        ci == ClassFactory_CreateInstance(FALSE, "IID_IExplorerCommand", TRUE, TRUE)
    IN /\ reg = r
       /\ loaded = TRUE
       /\ g_CLSID = gco.g
       /\ g_dllRefCount = gco.dll
       /\ factory = [f \in FactoryIds |-> IF f = 1 THEN gco.obj ELSE FreeSlot]
       /\ command = [c \in CommandIds |-> IF c = 1 THEN ci.obj ELSE FreeSlot]
       /\ locks = 0
       /\ last = Op("CreateInstance",
                    [obj |-> 1, pUnkOuter |-> FALSE, riid |-> "IID_IExplorerCommand",
                     ppv |-> TRUE],
                    ci.hr, PtrTo(1), NoRead, <<>>,
                    [made |-> ci.made, slot |-> 1, dllBefore |-> gco.dll,
                     clsidBefore |-> gco.g])

InitCommand == \E r \in CommandRegistries : HandedOut(r)

(***************************************************************************)
(* The registrar and other writers of the key.                             *)
(***************************************************************************)
AnyValue == [n \in ValueNames |-> ValuesOf(n)]
WellFormedValue == [n \in ValueNames |-> RewriteValues(n)]
RegSetValue(names, values) ==
    \E n \in names : \E v \in values[n] :
        /\ reg.key
        /\ reg.val[n] # v
        /\ reg' = [reg EXCEPT !.val[n] = v]
        /\ UNCHANGED <<loaded, g_CLSID, g_dllRefCount, factory, command, locks, last>>

RegDeleteKey ==
    /\ reg.key
    /\ reg' = NoKey
    /\ UNCHANGED <<loaded, g_CLSID, g_dllRefCount, factory, command, locks, last>>

RegCreateKey ==
    /\ ~reg.key
    /\ reg' = EmptyKey
    /\ UNCHANGED <<loaded, g_CLSID, g_dllRefCount, factory, command, locks, last>>

(***************************************************************************)
(* dllmain.cpp                                                             *)
(***************************************************************************)
\* DllMain(DLL_PROCESS_ATTACH)
DllMain ==
    /\ ~loaded
    /\ loaded' = TRUE
    /\ g_CLSID' = ReadCLSIDFromRegistry(reg, g_CLSID)
    /\ last' = Op("DllMain", None, S_OK, NULLPTR, Saw({"CLSID"}),
                 [n \in {"CLSID"} |-> g_CLSID'], None)
    /\ UNCHANGED <<reg, g_dllRefCount, factory, command, locks>>

\* slots new may place an object in; 0 stands for new (std::nothrow) failing
Available(objs) == {i \in DOMAIN objs : objs[i].st # "alive"} \cup {0}

DllGetClassObject ==
    \E rclsid \in Guids, riid \in IIDs, ppv \in BOOLEAN, slot \in Available(factory) :
        LET res == GetClassObject(reg, g_CLSID, g_dllRefCount, rclsid, riid, ppv, slot # 0)
        IN /\ loaded
           /\ g_CLSID' = res.g
           /\ g_dllRefCount' = res.dll
           /\ factory' = IF res.made THEN [factory EXCEPT ![slot] = res.obj] ELSE factory
           /\ last' = Op("DllGetClassObject",
                         [rclsid |-> rclsid, riid |-> riid, ppv |-> ppv],
                         res.hr,
                         IF res.hr = S_OK THEN PtrTo(slot) ELSE NULLPTR,
                         IF ppv THEN Saw({"CLSID"}) ELSE NoRead,
                         IF ppv THEN [n \in {"CLSID"} |-> res.g] ELSE <<>>,
                         [made |-> res.made, slot |-> slot, dllBefore |-> g_dllRefCount,
                          clsidBefore |-> g_CLSID])
           /\ UNCHANGED <<reg, loaded, command, locks>>

DllCanUnloadNow ==
    /\ loaded
    /\ last' = Op("DllCanUnloadNow", None, CanUnloadNow(g_dllRefCount), NULLPTR,
                 NoRead, <<>>, None)
    /\ UNCHANGED <<reg, loaded, g_CLSID, g_dllRefCount, factory, command, locks>>

(***************************************************************************)
(* ClassFactory.cpp: calls the host makes on a factory it holds.           *)
(***************************************************************************)
FactoryQueryInterface ==
    \E f \in FactoryIds, riid \in IIDs, ppv \in BOOLEAN :
        LET q == ClassFactory_QueryInterface(factory[f], riid, ppv)
        IN /\ factory[f].st = "alive"
           /\ factory[f].acquires < MaxAcquires
           /\ factory' = [factory EXCEPT ![f] = q.obj]
           /\ last' = Op("ClassFactory::QueryInterface",
                         [obj |-> f, riid |-> riid, ppv |-> ppv],
                         q.hr, IF q.hr = S_OK THEN PtrTo(f) ELSE NULLPTR, NoRead, <<>>, None)
           /\ UNCHANGED <<reg, loaded, g_CLSID, g_dllRefCount, command, locks>>

FactoryAddRef ==
    \E f \in FactoryIds :
        /\ factory[f].st = "alive"
        /\ factory[f].acquires < MaxAcquires
        /\ factory' = [factory EXCEPT ![f] = ClassFactory_AddRef(@)]
        /\ last' = Op("ClassFactory::AddRef", [obj |-> f], factory'[f].m_refCount,
                     NULLPTR, NoRead, <<>>, None)
        /\ UNCHANGED <<reg, loaded, g_CLSID, g_dllRefCount, command, locks>>

FactoryRelease ==
    \E f \in FactoryIds :
        LET d == ClassFactory_Release(factory[f], g_dllRefCount)
        IN /\ factory[f].st = "alive"
           /\ factory' = [factory EXCEPT ![f] = d.obj]
           /\ g_dllRefCount' = d.dll
           /\ last' = Op("ClassFactory::Release", [obj |-> f], d.obj.m_refCount,
                         NULLPTR, NoRead, <<>>, None)
           /\ UNCHANGED <<reg, loaded, g_CLSID, command, locks>>

CreateInstance ==
    \E f \in FactoryIds, pUnkOuter \in BOOLEAN, riid \in IIDs, ppv \in BOOLEAN,
       slot \in Available(command) :
        LET res == ClassFactory_CreateInstance(pUnkOuter, riid, ppv, slot # 0)
        IN /\ factory[f].st = "alive"
           /\ command' = IF res.made THEN [command EXCEPT ![slot] = res.obj] ELSE command
           /\ last' = Op("CreateInstance",
                         [obj |-> f, pUnkOuter |-> pUnkOuter, riid |-> riid, ppv |-> ppv],
                         res.hr,
                         IF res.hr = S_OK THEN PtrTo(slot) ELSE NULLPTR,
                         NoRead, <<>>,
                         [made |-> res.made, slot |-> slot, dllBefore |-> g_dllRefCount,
                          clsidBefore |-> g_CLSID])
           /\ UNCHANGED <<reg, loaded, g_CLSID, g_dllRefCount, factory, locks>>

\* LockServer(FALSE) undoes an earlier LockServer(TRUE)
LockServer ==
    \E f \in FactoryIds, fLock \in BOOLEAN :
        /\ factory[f].st = "alive"
        /\ IF fLock THEN locks < MaxLocks ELSE locks > 0
        /\ g_dllRefCount' = ClassFactory_LockServer(g_dllRefCount, fLock)
        /\ locks' = IF fLock THEN locks + 1 ELSE locks - 1
        /\ last' = Op("LockServer", [obj |-> f, fLock |-> fLock], S_OK, NULLPTR,
                     NoRead, <<>>, None)
        /\ UNCHANGED <<reg, loaded, g_CLSID, factory, command>>

(***************************************************************************)
(* BascankaCommand.cpp: calls the host makes on a command it holds.        *)
(***************************************************************************)
CommandQueryInterface ==
    \E c \in CommandIds, riid \in IIDs, ppv \in BOOLEAN :
        LET q == BascankaCommand_QueryInterface(command[c], riid, ppv)
        IN /\ command[c].st = "alive"
           /\ command[c].acquires < MaxAcquires
           /\ command' = [command EXCEPT ![c] = q.obj]
           /\ last' = Op("BascankaCommand::QueryInterface",
                         [obj |-> c, riid |-> riid, ppv |-> ppv],
                         q.hr, IF q.hr = S_OK THEN PtrTo(c) ELSE NULLPTR, NoRead, <<>>, None)
           /\ UNCHANGED <<reg, loaded, g_CLSID, g_dllRefCount, factory, locks>>

CommandAddRef ==
    \E c \in CommandIds :
        /\ command[c].st = "alive"
        /\ command[c].acquires < MaxAcquires
        /\ command' = [command EXCEPT ![c] = BascankaCommand_AddRef(@)]
        /\ last' = Op("BascankaCommand::AddRef", [obj |-> c], command'[c].m_refCount,
                     NULLPTR, NoRead, <<>>, None)
        /\ UNCHANGED <<reg, loaded, g_CLSID, g_dllRefCount, factory, locks>>

CommandRelease ==
    \E c \in CommandIds :
        /\ command[c].st = "alive"
        /\ command' = [command EXCEPT ![c] = BascankaCommand_Release(@)]
        /\ last' = Op("BascankaCommand::Release", [obj |-> c], command'[c].m_refCount,
                     NULLPTR, NoRead, <<>>, None)
        /\ UNCHANGED <<reg, loaded, g_CLSID, g_dllRefCount, factory, locks>>

\* the values ReadRegString hands the operation for the settings in names
Got(names) == [n \in names |-> ReadRegString(reg, n)]

CallGetTitle ==
    \E c \in CommandIds :
        LET res == GetTitle(reg)
        IN /\ command[c].st = "alive"
           /\ last' = Op("GetTitle", [obj |-> c], res.hr, res.out,
                         Saw({"DisplayName"}), Got({"DisplayName"}), None)
           /\ UNCHANGED <<reg, loaded, g_CLSID, g_dllRefCount, factory, command, locks>>

CallGetIcon ==
    \E c \in CommandIds :
        LET res == GetIcon(reg)
        IN /\ command[c].st = "alive"
           /\ last' = Op("GetIcon", [obj |-> c], res.hr, res.out,
                         Saw(GetIconReads(reg)), Got(GetIconReads(reg)), None)
           /\ UNCHANGED <<reg, loaded, g_CLSID, g_dllRefCount, factory, command, locks>>

\* the settings Invoke reads: none when the selection pointer is null
InvokeReads(psiItemArray) == IF psiItemArray.null THEN {} ELSE {"ExePath"}

CallInvoke ==
    \E c \in CommandIds, psiItemArray \in ItemArrays, shell \in ShellAnswers :
        LET res == Invoke(reg, psiItemArray, shell)
        IN /\ command[c].st = "alive"
           /\ last' = Op("Invoke", [obj |-> c, psiItemArray |-> psiItemArray],
                         res.hr, NULLPTR,
                         IF psiItemArray.null THEN NoRead ELSE Saw({"ExePath"}),
                         Got(InvokeReads(psiItemArray)),
                         [launches |-> res.launches,
                          shell |-> IF res.launches = <<>> THEN None ELSE shell])
           /\ UNCHANGED <<reg, loaded, g_CLSID, g_dllRefCount, factory, command, locks>>

(***************************************************************************)
(* Specifications.                                                         *)
(***************************************************************************)
Next ==
    \/ RegSetValue(ValueNames, AnyValue) \/ RegDeleteKey \/ RegCreateKey
    \/ DllMain \/ DllGetClassObject \/ DllCanUnloadNow
    \/ FactoryQueryInterface \/ FactoryAddRef \/ FactoryRelease
    \/ CreateInstance \/ LockServer
    \/ CommandQueryInterface \/ CommandAddRef \/ CommandRelease
    \/ CallGetTitle \/ CallGetIcon \/ CallInvoke

Spec == Init /\ [][Next]_vars

\* the host queries and invokes a command while the registrar rewrites its settings
NextCommand ==
    \/ RegSetValue(CommandNames, AnyValue)
    \/ CallGetTitle \/ CallGetIcon \/ CallInvoke

SpecCommand == InitCommand /\ [][NextCommand]_vars

\* the title and icon of a handed-out command while its settings are rewritten
\* and the configuration key is removed and created again
NextAppearance ==
    \/ RegSetValue(CommandNames, AnyValue) \/ RegDeleteKey \/ RegCreateKey
    \/ CallGetTitle \/ CallGetIcon
SpecAppearance == InitCommand /\ [][NextAppearance]_vars

\* the host asks for class objects while the registrar rewrites the identifier
NextLoad ==
    \/ RegSetValue({"CLSID"}, AnyValue) \/ RegDeleteKey \/ RegCreateKey
    \/ DllMain \/ DllGetClassObject \/ FactoryRelease

SpecLoad == InitFrom(ClsidRegistries) /\ [][NextLoad]_vars

\* a registered component whose settings are rewritten between the host's calls
NextRewrite ==
    \/ RegSetValue(ValueNames, WellFormedValue)
    \/ DllMain \/ DllGetClassObject \/ CreateInstance
    \/ CallGetTitle \/ CallGetIcon \/ CallInvoke

SpecRewrite ==
    InitFrom({Registered, [Registered EXCEPT !.val["CLSID"] = Absent]})
        /\ [][NextRewrite]_vars

\* the host creates, shares and releases objects; the key is left alone
NextLifetime ==
    \/ DllMain \/ DllGetClassObject \/ DllCanUnloadNow
    \/ FactoryQueryInterface \/ FactoryAddRef \/ FactoryRelease
    \/ CreateInstance \/ LockServer
    \/ CommandQueryInterface \/ CommandAddRef \/ CommandRelease

SpecLifetime == InitFrom({Registered}) /\ [][NextLifetime]_vars

(***************************************************************************)
(* Properties.  saw is the part of the key the last operation read, so the *)
(* predicates below speak of the settings as they were persisted when the  *)
(* operation ran, whatever was written since.                              *)
(***************************************************************************)
SawValue(n) == last.saw.val[n]
\* missing as the contract lists it: no key, no value, not a REG_SZ, or empty
ListedMissing(n) ==
    ~last.saw.key \/ SawValue(n).type # REG_SZ \/ SawValue(n).data = <<>>
\* longer than the read buffer holds with its terminator
TooLong(n) == Len(SawValue(n).data) > BufferChars - 1
Unusable(n) == ListedMissing(n) \/ TooLong(n)
IsInvoke == last.op = "Invoke"
Selection == last.arg.psiItemArray
Launches == last.fx.launches

\* C1: an Invoke on a non-null selection whose GetCount succeeds with 0 items
\* returns a failure status, and no process launch is attempted.
C1_EmptySelectionFails ==
    (IsInvoke /\ ~Selection.null /\ SUCCEEDED(Selection.countHr)
        /\ Len(Selection.items) = 0)
    => (FAILED(last.hr) /\ Launches = <<>>)

\* C7: every failing Invoke returns a failure status and is never retried:
\* ExePath missing gives a failure with no launch attempt, a failed launch gives
\* a failure after exactly one attempt, and success is returned only after a
\* launch that was attempted and succeeded.
C7_FailuresSurfacedNotRetried ==
    IsInvoke =>
        /\ Len(Launches) <= 1
        /\ (~Selection.null /\ ListedMissing("ExePath"))
              => (FAILED(last.hr) /\ Launches = <<>>)
        /\ (Launches # <<>> /\ ~last.fx.shell.ok)
              => (FAILED(last.hr) /\ Len(Launches) = 1)
        /\ SUCCEEDED(last.hr) => (Len(Launches) = 1 /\ last.fx.shell.ok)

\* the selected paths, each in double quotes, joined by single spaces
RECURSIVE QuotedList(_)
QuotedList(items) ==
    IF items = <<>> THEN <<>>
    ELSE IF Len(items) = 1 THEN Quoted(items[1].path)
    ELSE Quoted(items[1].path) \o <<" ">> \o QuotedList(Tail(items))

\* C3: a successful Invoke requests exactly one launch, of the configured
\* ExePath, whose argument string is every selected path in selection order,
\* each in double quotes, separated by single spaces.
C3_OneLaunchWithAllPaths ==
    (IsInvoke /\ SUCCEEDED(last.hr)) =>
        /\ Len(Launches) = 1
        /\ Launches[1].file = SawValue("ExePath").data
        /\ Launches[1].params = QuotedList(Selection.items)

\* C5 as stated: GetTitle returns the fixed label whenever DisplayName is
\* missing (no key, no value, not a string value, empty) and the configured
\* DisplayName unchanged in every other case.
C5_TitleOrListedFallback ==
    last.op = "GetTitle" =>
        /\ last.hr = S_OK
        /\ last.out = PtrTo(IF ListedMissing("DisplayName") THEN FallbackTitle
                            ELSE SawValue("DisplayName").data)

\* C5 as amended: GetTitle returns the fixed label whenever DisplayName is
\* missing (no key, no value, not a REG_SZ value, empty) or longer than the
\* 1023 characters the read buffer holds, and the configured DisplayName
\* unchanged in every other case.
C5_TitleOrFallback ==
    last.op = "GetTitle" =>
        /\ last.hr = S_OK
        /\ last.out = PtrTo(IF Unusable("DisplayName") THEN FallbackTitle
                            ELSE SawValue("DisplayName").data)

\* GetTitle has answered the fixed label for a DisplayName that is a REG_SZ of
\* 1024 characters
C5_Witness ==
    /\ last.op = "GetTitle"
    /\ ~ListedMissing("DisplayName")
    /\ TooLong("DisplayName")
    /\ last.out = PtrTo(FallbackTitle)

\* C6 as stated: GetIcon returns the configured IconPath when it is set;
\* ExePath followed by ",0" when IconPath is missing and ExePath is set; no
\* icon (null output) with E_NOTIMPL when both are missing.
C6_IconOrListedFallback ==
    last.op = "GetIcon" =>
        IF ~ListedMissing("IconPath")
        THEN last.hr = S_OK /\ last.out = PtrTo(SawValue("IconPath").data)
        ELSE IF ~ListedMissing("ExePath")
        THEN last.hr = S_OK /\ last.out = PtrTo(SawValue("ExePath").data \o <<",", "0">>)
        ELSE last.hr = E_NOTIMPL /\ last.out = NULLPTR

\* C6 as amended: the same, where a setting counts as set only if it is a
\* non-empty REG_SZ of at most 1023 characters, and as missing otherwise.
C6_IconOrFallback ==
    last.op = "GetIcon" =>
        IF ~Unusable("IconPath")
        THEN last.hr = S_OK /\ last.out = PtrTo(SawValue("IconPath").data)
        ELSE IF ~Unusable("ExePath")
        THEN last.hr = S_OK /\ last.out = PtrTo(SawValue("ExePath").data \o <<",", "0">>)
        ELSE last.hr = E_NOTIMPL /\ last.out = NULLPTR

\* GetIcon has fallen back to "ExePath,0" for an IconPath of 1024 characters
C6_Witness ==
    /\ last.op = "GetIcon"
    /\ ~ListedMissing("IconPath")
    /\ TooLong("IconPath")
    /\ ~Unusable("ExePath")
    /\ last.out = PtrTo(SawValue("ExePath").data \o <<",", "0">>)

\* the value of a setting as persisted when the last operation read it: its
\* characters if it is a REG_SZ that fits the read buffer, nothing otherwise
Persisted(n) == IF Unusable(n) THEN <<>> ELSE SawValue(n).data
\* the identifier persisted under CLSID when the last operation read it
\* (a pointer: null when none is persisted)
PersistedIdentifier ==
    IF last.saw.key /\ SawValue("CLSID").type = REG_SZ
          /\ \E g \in Guids : SawValue("CLSID").data = GuidString(g)
    THEN PtrTo(CHOOSE g \in Guids : SawValue("CLSID").data = GuidString(g))
    ELSE NULLPTR
CommandOps == {"GetTitle", "GetIcon", "Invoke"}
LoadOps == {"DllMain", "DllGetClassObject"}

C9_FactoryOnlyForPersistedIdentifier ==
    (last.op = "DllGetClassObject" /\ last.arg.ppv) =>
        /\ last.fx.clsidBefore = CLSID_NULL
              => PtrTo(last.got["CLSID"]) \in {PersistedIdentifier, PtrTo(CLSID_NULL)}
        /\ last.hr = S_OK => PersistedIdentifier = PtrTo(last.arg.rclsid)
        /\ PersistedIdentifier # PtrTo(last.arg.rclsid)
              => /\ last.hr = CLASS_E_CLASSNOTAVAILABLE
                 /\ last.out = NULLPTR
                 /\ ~last.fx.made

Objects == {factory[f] : f \in FactoryIds} \cup {command[c] : c \in CommandIds}
Constructed == {o \in Objects : o.st # "free"}

\* C2: under symmetric use no reference counter is ever negative, and each
\* object's counter equals 1 + acquires - releases.
C2_CountersTrackReferences ==
    /\ g_dllRefCount >= 0
    /\ \A o \in Constructed :
          o.m_refCount >= 0 /\ o.m_refCount = 1 + o.acquires - o.releases

\* a command and a factory each acquired and released more than once, with a
\* server lock outstanding
C2_Witness ==
    /\ \E c \in CommandIds : command[c].acquires >= 2 /\ command[c].releases >= 2
    /\ \E f \in FactoryIds : factory[f].acquires >= 2 /\ factory[f].releases >= 2
    /\ locks > 0

Alive(objs) == {i \in DOMAIN objs : objs[i].st = "alive"}
Idle == Alive(factory) = {} /\ Alive(command) = {} /\ locks = 0

\* C8: DllCanUnloadNow answers S_OK only when no factory and no command is
\* alive and no LockServer(TRUE) is outstanding, and S_FALSE otherwise.
C8_UnloadOnlyWhenIdle ==
    last.op = "DllCanUnloadNow" =>
        /\ last.hr = S_OK => Idle
        /\ ~Idle => last.hr = S_FALSE

HandedOff(objs) ==
    IF last.hr = S_OK
    THEN /\ last.fx.made
         /\ last.out = PtrTo(last.fx.slot)
         /\ objs[last.fx.slot].st = "alive"
         /\ objs[last.fx.slot].m_refCount = 1
    ELSE /\ last.out = NULLPTR
         /\ last.fx.made => (objs[last.fx.slot].st = "deleted"
                               /\ objs[last.fx.slot].deletes = 1)
         /\ g_dllRefCount = last.fx.dllBefore

\* C10: a successful DllGetClassObject or CreateInstance leaves the new object
\* with exactly one reference, the caller's; a failed one (unsupported
\* interface, null output pointer, aggregation: CLASS_E_NOAGGREGATION) leaves
\* no new object alive and g_dllRefCount at its prior value; an object is
\* deleted exactly once, by the Release that brings its count to 0.
C10_HandOffKeepsOneReference ==
    /\ \A o \in Constructed :
          /\ o.st = "deleted" <=> o.m_refCount = 0
          /\ o.deletes = IF o.st = "deleted" THEN 1 ELSE 0
    /\ last.op = "DllGetClassObject" => HandedOff(factory)
    /\ last.op = "CreateInstance" =>
          /\ HandedOff(command)
          /\ last.arg.pUnkOuter => (last.hr = CLASS_E_NOAGGREGATION /\ ~last.fx.made)

\* CreateInstance has failed on an unsupported interface after constructing
\* the command, which is deleted again
C10_Witness ==
    /\ last.op = "CreateInstance"
    /\ last.hr = E_NOINTERFACE
    /\ last.fx.made
    /\ command[last.fx.slot].st = "deleted"

=============================================================================
